---- MODULE Spec2Model ----
(***************************************************************************)
(* Model of the subtitle splitter: the time codec and the SRT parser and   *)
(* serializer of services/srtService.ts, the oracle wrapper                *)
(* processSubtitlesBatch of services/geminiService.ts and the handlers of  *)
(* the App component (handleFileChange, handleNewUpload, handleTransform   *)
(* with its reallocation loop).                                            *)
(*                                                                         *)
(* A JavaScript string is a sequence of one-character strings, so that     *)
(* trimming, splitting, regular-expression matching, parseInt and padStart *)
(* are computed character by character as the code computes them.          *)
(***************************************************************************)
EXTENDS Integers, Sequences, FiniteSets, TLC

VARIABLES
    \* ---- state of the App component (useState)
    originalSrt,            \* string: the uploaded file's text
    processedSrt,           \* string: the result text
    error,                  \* NoError or an error message
    isLoading,              \* BOOLEAN
    reader,                 \* the FileReader in flight: NoFile or a file
    \* ---- handleTransform's frame (its locals, observable until the next handler runs)
    pc,                     \* "idle" | "await" | "done" | "failed"
    oracleResponse,         \* what the model answered to processSubtitlesBatch
    originalEntries,        \* parseSrt(originalSrt)
    processedEntriesFromAI, \* what processSubtitlesBatch resolved with
    newSrtEntries,          \* the entries the reallocation loop emitted
    \* ---- harness of the pure functions (codec, parser, serializer)
    stage,                  \* which function has been applied last
    source,                 \* the blocks the input text was written from
    input,                  \* the string the harness started from
    ms,                     \* timeToMs(input)
    timeOut,                \* msToTime(ms)
    entries,                \* parseSrt(input)
    thrown,                 \* whether the parser applied to input threw
    lineEntries,            \* the entries of the line-by-line parser of src/services
    rendered,               \* stringifySrt(entries)
    reparsed                \* parseSrt(rendered)

appVars == <<originalSrt, processedSrt, error, isLoading, reader,
             pc, oracleResponse, originalEntries, processedEntriesFromAI, newSrtEntries>>
harnessVars == <<stage, source, input, ms, timeOut, entries, thrown, lineEntries,
                 rendered, reparsed>>
vars == <<originalSrt, processedSrt, error, isLoading, reader,
          pc, oracleResponse, originalEntries, processedEntriesFromAI, newSrtEntries,
          stage, source, input, ms, timeOut, entries, thrown, lineEntries,
          rendered, reparsed>>

(***************************************************************************)
(* Characters and the JavaScript string primitives the code uses.          *)
(***************************************************************************)
NL == "\n"
CR == "\r"
Digits == <<"0", "1", "2", "3", "4", "5", "6", "7", "8", "9">>
DigitSet == {Digits[i] : i \in 1..10}
\* what \s and String.prototype.trim treat as white space (the ASCII part)
WhiteSpace == {" ", "\t", NL, CR}

IsDigit(c) == c \in DigitSet
DigitVal(c) == CHOOSE d \in 0..9 : Digits[d + 1] = c
DigitChar(d) == Digits[d + 1]

RECURSIVE Concat(_)
\* the concatenation of a sequence of strings
Concat(ss) == IF ss = <<>> THEN <<>> ELSE Head(ss) \o Concat(Tail(ss))

RECURSIVE Join(_, _)
\* Array.prototype.join
Join(ss, sep) ==
    IF ss = <<>> THEN <<>>
    ELSE IF Len(ss) = 1 THEN ss[1]
    ELSE ss[1] \o sep \o Join(Tail(ss), sep)

RECURSIVE TrimStart(_)
TrimStart(s) ==
    IF s # <<>> /\ Head(s) \in WhiteSpace THEN TrimStart(Tail(s)) ELSE s

RECURSIVE TrimEnd(_)
TrimEnd(s) ==
    IF s # <<>> /\ s[Len(s)] \in WhiteSpace THEN TrimEnd(SubSeq(s, 1, Len(s) - 1)) ELSE s

\* String.prototype.trim
Trim(s) == TrimEnd(TrimStart(s))

RECURSIVE ReplaceCRLF(_)
\* s.replace(/\r\n/g, '\n')
ReplaceCRLF(s) ==
    IF s = <<>> THEN <<>>
    ELSE IF Len(s) >= 2 /\ s[1] = CR /\ s[2] = NL
         THEN <<NL>> \o ReplaceCRLF(SubSeq(s, 3, Len(s)))
         ELSE <<Head(s)>> \o ReplaceCRLF(Tail(s))

RECURSIVE RemoveNL(_)
\* s.replace(/\n/g, '')
RemoveNL(s) ==
    IF s = <<>> THEN <<>>
    ELSE IF Head(s) = NL THEN RemoveNL(Tail(s))
    ELSE <<Head(s)>> \o RemoveNL(Tail(s))

RECURSIVE SplitFrom(_, _, _, _)
SplitFrom(s, seps, i, cur) ==
    IF i > Len(s) THEN <<cur>>
    ELSE IF s[i] \in seps THEN <<cur>> \o SplitFrom(s, seps, i + 1, <<>>)
    ELSE SplitFrom(s, seps, i + 1, Append(cur, s[i]))

\* String.prototype.split on a one-character separator class: '\n' or /[:,]/
Split(s, seps) == SplitFrom(s, seps, 1, <<>>)

RECURSIVE SkipWs(_, _)
\* the first index >= i of s that holds no white space (Len(s) + 1 if none): \s*
SkipWs(s, i) ==
    IF i <= Len(s) /\ s[i] \in WhiteSpace THEN SkipWs(s, i + 1) ELSE i

\* /\n\s*\n/ at index i: 0 if it does not match there, else the index of the
\* match's last character. \s* is greedy and backtracks to the last line break of
\* the white-space run that follows s[i].
BlankLineEnd(s, i) ==
    IF i > Len(s) \/ s[i] # NL THEN 0
    ELSE LET stop == SkipWs(s, i + 1)
             nls == {k \in (i + 1)..(stop - 1) : s[k] = NL}
         IN  IF nls = {} THEN 0 ELSE CHOOSE k \in nls : \A j \in nls : j <= k

RECURSIVE SplitBlocksFrom(_, _, _)
SplitBlocksFrom(s, i, start) ==
    IF i > Len(s) THEN <<SubSeq(s, start, Len(s))>>
    ELSE LET e == BlankLineEnd(s, i)
         IN  IF e = 0 THEN SplitBlocksFrom(s, i + 1, start)
             ELSE <<SubSeq(s, start, i - 1)>> \o SplitBlocksFrom(s, e + 1, e + 1)

\* s.split(/\n\s*\n/)
SplitBlocks(s) == SplitBlocksFrom(s, 1, 1)

RECURSIVE DigitRun(_, _)
\* the index after the run of digits of s that starts at i
DigitRun(s, i) == IF i <= Len(s) /\ IsDigit(s[i]) THEN DigitRun(s, i + 1) ELSE i

RECURSIVE DecimalValue(_)
\* the number a string of digits denotes
DecimalValue(ds) ==
    IF ds = <<>> THEN 0
    ELSE 10 * DecimalValue(SubSeq(ds, 1, Len(ds) - 1)) + DigitVal(ds[Len(ds)])

\* parseInt(s, 10): leading white space, an optional sign, the longest run of
\* digits; NaN when there is no digit.
ParseInt(s) ==
    LET t == TrimStart(s)
        signed == t # <<>> /\ t[1] \in {"-", "+"}
        from == IF signed THEN 2 ELSE 1
        to == DigitRun(t, from)
        v == DecimalValue(SubSeq(t, from, to - 1))
    IN  [nan |-> to = from,
         val |-> IF to = from THEN 0 ELSE IF signed /\ t[1] = "-" THEN 0 - v ELSE v]

RECURSIVE NatToStr(_)
NatToStr(n) == IF n < 10 THEN <<DigitChar(n)>> ELSE NatToStr(n \div 10) \o <<DigitChar(n % 10)>>

\* String(n) of an integer
ToStr(n) == IF n < 0 THEN <<"-">> \o NatToStr(0 - n) ELSE NatToStr(n)

RECURSIVE PadStart(_, _)
\* s.padStart(width, '0')
PadStart(s, width) == IF Len(s) >= width THEN s ELSE PadStart(<<"0">> \o s, width)

\* JavaScript's % : the remainder takes the sign of the dividend
JsRem(a, b) == IF a >= 0 THEN a % b ELSE 0 - ((0 - a) % b)

(***************************************************************************)
(* services/srtService.ts: the time codec.                                 *)
(***************************************************************************)
\* timeToMs: split on ':' and ',', parseInt of the first four parts. Its only
\* callers pass a capture of \d{2}:\d{2}:\d{2},\d{3}, so no part is NaN.
timeToMs(time) ==
    LET parts == Split(time, {":", ","})
        hours == ParseInt(parts[1]).val
        minutes == ParseInt(parts[2]).val
        seconds == ParseInt(parts[3]).val
        milliseconds == ParseInt(parts[4]).val
    IN  hours * 3600000 + minutes * 60000 + seconds * 1000 + milliseconds

\* msToTime with the `% 3600` forgotten: the minutes do not wrap at the hour
msToTimeMinutesNoWrap(t) ==
    LET totalSeconds == t \div 1000
        hours == PadStart(ToStr(totalSeconds \div 3600), 2)
        minutes == PadStart(ToStr(totalSeconds \div 60), 2)
        seconds == PadStart(ToStr(JsRem(totalSeconds, 60)), 2)
        milliseconds == PadStart(ToStr(JsRem(t, 1000)), 3)
    IN  hours \o <<":">> \o minutes \o <<":">> \o seconds \o <<",">> \o milliseconds

msToTime(t) ==
    LET totalSeconds == t \div 1000
        hours == PadStart(ToStr(totalSeconds \div 3600), 2)
        minutes == PadStart(ToStr(JsRem(totalSeconds, 3600) \div 60), 2)
        seconds == PadStart(ToStr(JsRem(totalSeconds, 60)), 2)
        milliseconds == PadStart(ToStr(JsRem(t, 1000)), 3)
    IN  hours \o <<":">> \o minutes \o <<":">> \o seconds \o <<",">> \o milliseconds

(***************************************************************************)
(* services/srtService.ts: the parser and the serializer.                  *)
(***************************************************************************)
\* \d{2}:\d{2}:\d{2},\d{3} at index i of s
StampAt(s, i) ==
    /\ i >= 1
    /\ i + 11 <= Len(s)
    /\ \A k \in {0, 1, 3, 4, 6, 7, 9, 10, 11} : IsDigit(s[i + k])
    /\ s[i + 2] = ":"
    /\ s[i + 5] = ":"
    /\ s[i + 8] = ","

ArrowAt(s, i) == i + 2 <= Len(s) /\ s[i] = "-" /\ s[i + 1] = "-" /\ s[i + 2] = ">"

\* where the second stamp starts when the whole pattern matches at i, else 0
TimeMatchAt(s, i) ==
    IF ~StampAt(s, i) THEN 0
    ELSE LET a == SkipWs(s, i + 12)
         IN  IF ~ArrowAt(s, a) THEN 0
             ELSE LET b == SkipWs(s, a + 3)
                  IN  IF StampAt(s, b) THEN b ELSE 0

\* line.match(/(\d{2}:\d{2}:\d{2},\d{3})\s*-->\s*(\d{2}:\d{2}:\d{2},\d{3})/):
\* not anchored, so the leftmost place where the pattern matches
TimeMatch(line) ==
    LET at == {i \in 1..Len(line) : TimeMatchAt(line, i) # 0}
    IN  IF at = {} THEN [matched |-> FALSE, g1 |-> <<>>, g2 |-> <<>>]
        ELSE LET i == CHOOSE k \in at : \A j \in at : k <= j
                 b == TimeMatchAt(line, i)
             IN  [matched |-> TRUE,
                  g1 |-> SubSeq(line, i, i + 11),
                  g2 |-> SubSeq(line, b, b + 11)]

\* the body of parseSrt's loop: the entries (none or one) a block contributes
ParseBlock(block) ==
    LET lines == Split(Trim(block), {NL})
    IN  IF Len(lines) >= 2
        THEN LET id == ParseInt(lines[1])
                 timeMatch == TimeMatch(lines[2])
             IN  IF ~id.nan /\ timeMatch.matched
                 THEN <<[id |-> id.val,
                         startTime |-> timeToMs(timeMatch.g1),
                         endTime |-> timeToMs(timeMatch.g2),
                         text |-> Join(SubSeq(lines, 3, Len(lines)), <<NL>>)]>>
                 ELSE <<>>
        ELSE <<>>

RECURSIVE ParseBlocks(_)
ParseBlocks(blocks) ==
    IF blocks = <<>> THEN <<>> ELSE ParseBlock(Head(blocks)) \o ParseBlocks(Tail(blocks))

\* parseSrt has no throw statement and calls nothing that throws: it returns the
\* entries of the blocks that pass both checks, none when no block does
parseSrt(srtContent) == ParseBlocks(SplitBlocks(Trim(ReplaceCRLF(srtContent))))

\* one entry rendered by stringifySrt's template literal
StringifyEntry(entry) ==
    ToStr(entry.id) \o <<NL>>
        \o msToTime(entry.startTime) \o <<" ", "-", "-", ">", " ">> \o msToTime(entry.endTime)
        \o <<NL>> \o entry.text

\* stringifySrt with a blank line after every block, the last included
stringifySrtTrailingBlank(es) ==
    Concat([i \in 1..Len(es) |-> StringifyEntry(es[i]) \o <<NL, NL>>])

\* entries.map(...).join('\n\n')
stringifySrt(es) == Join([i \in 1..Len(es) |-> StringifyEntry(es[i])], <<NL, NL>>)

(***************************************************************************)
(* src/services/srtService.ts: the line-by-line parser of the src/ App,    *)
(* whose entries keep the id and the timestamps as strings.                *)
(***************************************************************************)
StripCR(piece) ==
    IF piece # <<>> /\ piece[Len(piece)] = CR THEN SubSeq(piece, 1, Len(piece) - 1) ELSE piece

\* s.split(/\r?\n/)
SplitLines(s) ==
    LET pieces == Split(s, {NL})
    IN  [i \in 1..Len(pieces) |-> IF i < Len(pieces) THEN StripCR(pieces[i]) ELSE pieces[i]]

\* /^\d+$/.test(line)
AllDigits(line) == line # <<>> /\ \A i \in 1..Len(line) : IsDigit(line[i])

\* the pattern with ' --> ' between the stamps, at index i
ArrowMatchAt(s, i) ==
    /\ StampAt(s, i)
    /\ i + 16 <= Len(s)
    /\ SubSeq(s, i + 12, i + 16) = <<" ", "-", "-", ">", " ">>
    /\ StampAt(s, i + 17)

\* line.match(/(\d{2}:\d{2}:\d{2},\d{3}) --> (\d{2}:\d{2}:\d{2},\d{3})/)
ArrowMatch(line) ==
    LET at == {i \in 1..Len(line) : ArrowMatchAt(line, i)}
    IN  IF at = {} THEN [matched |-> FALSE, g1 |-> <<>>, g2 |-> <<>>]
        ELSE LET i == CHOOSE k \in at : \A j \in at : k <= j
             IN  [matched |-> TRUE,
                  g1 |-> SubSeq(line, i, i + 11),
                  g2 |-> SubSeq(line, i + 17, i + 28)]

\* currentEntry = {}: an id or a start time not yet set is the empty string
EmptyEntry == [id |-> <<>>, startTime |-> <<>>, endTime |-> <<>>, text |-> <<>>]

RECURSIVE ParseLinesFrom(_, _, _, _)
\* the for loop from line i on, and the push of the last entry after it
ParseLinesFrom(lines, i, currentEntry, textLines) ==
    IF i > Len(lines)
    THEN IF currentEntry.id # <<>> /\ currentEntry.startTime # <<>>
         THEN <<[currentEntry EXCEPT !.text = Join(textLines, <<NL>>)]>>
         ELSE <<>>
    ELSE LET line == lines[i]
         IN  IF currentEntry.id = <<>>
             THEN IF AllDigits(line)
                  THEN ParseLinesFrom(lines, i + 1, [currentEntry EXCEPT !.id = line], textLines)
                  ELSE ParseLinesFrom(lines, i + 1, currentEntry, textLines)
             ELSE IF currentEntry.startTime = <<>>
             THEN LET match == ArrowMatch(line)
                  IN  IF match.matched
                      THEN ParseLinesFrom(lines, i + 1,
                               [currentEntry EXCEPT !.startTime = match.g1, !.endTime = match.g2],
                               textLines)
                      ELSE ParseLinesFrom(lines, i + 1, EmptyEntry, textLines)
             ELSE IF Trim(line) # <<>>
             THEN ParseLinesFrom(lines, i + 1, currentEntry, Append(textLines, Trim(line)))
             ELSE <<[currentEntry EXCEPT !.text = Join(textLines, <<NL>>)]>>
                      \o ParseLinesFrom(lines, i + 1, EmptyEntry, <<>>)

\* parseSrt of src/services/srtService.ts: [threw, entries]
parseSrtLines(srtContent) ==
    LET found == ParseLinesFrom(SplitLines(Trim(srtContent)), 1, EmptyEntry, <<>>)
    IN  IF Len(found) = 0 /\ Len(Trim(srtContent)) > 0
        THEN [threw |-> TRUE, entries |-> <<>>]
        ELSE [threw |-> FALSE, entries |-> found]

(***************************************************************************)
(* Inputs: timestamps and caption files, written out character by          *)
(* character from small sets of fields and blocks.                         *)
(***************************************************************************)
Two(n) == <<DigitChar(n \div 10), DigitChar(n % 10)>>
Three(n) == <<DigitChar(n \div 100), DigitChar((n \div 10) % 10), DigitChar(n % 10)>>
\* the string HH:MM:SS,mmm with the given field values
Stamp(h, m, sec, f) == Two(h) \o <<":">> \o Two(m) \o <<":">> \o Two(sec) \o <<",">> \o Three(f)

HourChoices == {0, 1, 99}
FieldChoices == {0, 7, 59, 60, 99}
MilliChoices == {0, 5, 999}
StampInputs ==
    {Stamp(h, m, sec, f) : h \in HourChoices, m \in FieldChoices,
                           sec \in FieldChoices, f \in MilliChoices}

Arrow == <<" ", "-", "-", ">", " ">>
\* a block of a caption file: the id line, the timing line in its parts, the text lines
Block(idLine, pre, start, arrow, fin, post, textLines) ==
    [idLine |-> idLine, pre |-> pre, start |-> start, arrow |-> arrow, fin |-> fin,
     post |-> post, textLines |-> textLines]
TimingLine(b) == b.pre \o b.start \o b.arrow \o b.fin \o b.post
BlockLines(b) ==
    IF b.start = <<>> THEN <<b.idLine>> ELSE <<b.idLine, TimingLine(b)>> \o b.textLines

\* a decimal id, two stamps joined by ' --> ', text lines that are not blank
WellFormedBlock(b) ==
    /\ b.idLine # <<>>
    /\ \A i \in 1..Len(b.idLine) : IsDigit(b.idLine[i])
    /\ b.pre = <<>> /\ b.post = <<>> /\ b.arrow = Arrow
    /\ Len(b.start) = 12 /\ StampAt(b.start, 1)
    /\ Len(b.fin) = 12 /\ StampAt(b.fin, 1)
    /\ \A i \in 1..Len(b.textLines) : Trim(b.textLines[i]) # <<>>

WellFormedBlocks ==
    { Block(<<"1">>, <<>>, Stamp(0, 0, 1, 0), Arrow, Stamp(0, 0, 5, 0), <<>>, <<<<"a", "b">>, <<"c">>>>),
      Block(<<"2">>, <<>>, Stamp(0, 0, 0, 0), Arrow, Stamp(0, 0, 0, 2), <<>>, <<<<"a">>>>),
      Block(<<"0", "7">>, <<>>, Stamp(99, 59, 59, 999), Arrow, Stamp(99, 59, 59, 999), <<>>, <<>>),
      Block(<<"3">>, <<>>, Stamp(0, 61, 61, 0), Arrow, Stamp(99, 60, 0, 0), <<>>, <<<<"a">>>>),
      Block(<<"4">>, <<>>, Stamp(0, 0, 2, 0), Arrow, Stamp(0, 0, 1, 0), <<>>, <<<<" ", "a">>>>) }

MalformedBlocks ==
    { Block(<<"1", "2", "a", "b", "c">>, <<>>, Stamp(0, 0, 1, 0), Arrow, Stamp(0, 0, 5, 0), <<>>, <<<<"a">>>>),
      Block(<<"-", "3">>, <<>>, Stamp(0, 0, 1, 0), Arrow, Stamp(0, 0, 5, 0), <<>>, <<<<"a">>>>),
      Block(<<"x">>, <<>>, Stamp(0, 0, 1, 0), Arrow, Stamp(0, 0, 5, 0), <<>>, <<<<"a">>>>),
      Block(<<"5">>, <<>>, Stamp(0, 0, 1, 0), <<" ">>, Stamp(0, 0, 5, 0), <<>>, <<<<"a">>>>),
      Block(<<"6">>, <<"x">>, Stamp(0, 0, 1, 0), Arrow, Stamp(0, 0, 5, 0), <<"y">>, <<<<"a">>>>),
      Block(<<"7">>, <<>>, Stamp(0, 0, 1, 0), <<"-", "-", ">">>, Stamp(0, 0, 5, 0), <<>>, <<<<"a">>>>),
      Block(<<"8">>, <<>>, <<>>, <<>>, <<>>, <<>>, <<>>) }

Blocks == WellFormedBlocks \cup MalformedBlocks

\* the files of at most n blocks drawn from bs
RECURSIVE SeqsUpTo(_, _)
SeqsUpTo(S, n) ==
    IF n = 0 THEN {<<>>}
    ELSE LET shorter == SeqsUpTo(S, n - 1)
         IN  shorter \cup {Append(q, x) : q \in {r \in shorter : Len(r) = n - 1}, x \in S}

\* a file: its blocks, its line ending ('\n' or '\r\n'), and whether a line ending
\* follows the last line
MaxBlocks == 2
LineEndings == {<<NL>>, <<CR, NL>>}
SrtSources ==
    {[blocks |-> bs, eol |-> e] : bs \in SeqsUpTo(Blocks, MaxBlocks), e \in LineEndings}

\* the text of a file: lines ended by the file's line ending, blocks separated by
\* one blank line
RenderSource(src) ==
    LET blockText(b) == Concat([i \in 1..Len(BlockLines(b)) |-> BlockLines(b)[i] \o src.eol])
    IN  Join([i \in 1..Len(src.blocks) |-> blockText(src.blocks[i])], src.eol)

WellFormedSource(src) == \A i \in 1..Len(src.blocks) : WellFormedBlock(src.blocks[i])

(***************************************************************************)
(* The harness of the pure functions.                                      *)
(***************************************************************************)
NoError == "null"
NoFile == [name |-> "none", content |-> <<>>]
NoResponse == [kind |-> "none", category |-> "none", data |-> <<>>]

AppIdle ==
    /\ originalSrt = <<>>
    /\ processedSrt = <<>>
    /\ error = NoError
    /\ isLoading = FALSE
    /\ reader = NoFile
    /\ pc = "idle"
    /\ oracleResponse = NoResponse
    /\ originalEntries = <<>>
    /\ processedEntriesFromAI = <<>>
    /\ newSrtEntries = <<>>

HarnessIdle ==
    /\ stage = "off"
    /\ source = [blocks |-> <<>>, eol |-> <<NL>>]
    /\ input = <<>>
    /\ ms = 0
    /\ timeOut = <<>>
    /\ entries = <<>>
    /\ thrown = FALSE
    /\ lineEntries = <<>>
    /\ rendered = <<>>
    /\ reparsed = <<>>

InitCodec ==
    /\ AppIdle
    /\ stage = "time"
    /\ source = [blocks |-> <<>>, eol |-> <<NL>>]
    /\ input \in StampInputs
    /\ ms = 0
    /\ timeOut = <<>>
    /\ entries = <<>>
    /\ thrown = FALSE
    /\ lineEntries = <<>>
    /\ rendered = <<>>
    /\ reparsed = <<>>

ApplyTimeToMs ==
    /\ stage = "time"
    /\ ms' = timeToMs(input)
    /\ stage' = "ms"
    /\ UNCHANGED <<source, input, timeOut, entries, thrown, lineEntries, rendered, reparsed>>
    /\ UNCHANGED appVars

ApplyMsToTime ==
    /\ stage = "ms"
    /\ timeOut' = msToTime(ms)
    /\ stage' = "formatted"
    /\ UNCHANGED <<source, input, ms, entries, thrown, lineEntries, rendered, reparsed>>
    /\ UNCHANGED appVars

NextCodec == ApplyTimeToMs \/ ApplyMsToTime

SpecCodec == InitCodec /\ [][NextCodec]_vars

InitSrt ==
    /\ AppIdle
    /\ stage = "text"
    /\ source \in SrtSources
    /\ input = RenderSource(source)
    /\ ms = 0
    /\ timeOut = <<>>
    /\ entries = <<>>
    /\ thrown = FALSE
    /\ lineEntries = <<>>
    /\ rendered = <<>>
    /\ reparsed = <<>>

ApplyParseSrt ==
    /\ stage = "text"
    /\ entries' = parseSrt(input)
    /\ thrown' = FALSE
    /\ stage' = "parsed"
    /\ UNCHANGED <<source, input, ms, timeOut, lineEntries, rendered, reparsed>>
    /\ UNCHANGED appVars

ApplyStringifySrt ==
    /\ stage = "parsed"
    /\ rendered' = stringifySrt(entries)
    /\ stage' = "rendered"
    /\ UNCHANGED <<source, input, ms, timeOut, entries, thrown, lineEntries, reparsed>>
    /\ UNCHANGED appVars

ApplyReparse ==
    /\ stage = "rendered"
    /\ reparsed' = parseSrt(rendered)
    /\ stage' = "reparsed"
    /\ UNCHANGED <<source, input, ms, timeOut, entries, thrown, lineEntries, rendered>>
    /\ UNCHANGED appVars

\* the line-by-line parser applied to the same text
ApplyParseSrtLines ==
    /\ stage = "text"
    /\ lineEntries' = parseSrtLines(input).entries
    /\ thrown' = parseSrtLines(input).threw
    /\ stage' = "parsedLines"
    /\ UNCHANGED <<source, input, ms, timeOut, entries, rendered, reparsed>>
    /\ UNCHANGED appVars

NextSrt == ApplyParseSrt \/ ApplyParseSrtLines \/ ApplyStringifySrt \/ ApplyReparse

SpecSrt == InitSrt /\ [][NextSrt]_vars

(***************************************************************************)
(* services/geminiService.ts: processSubtitlesBatch.                       *)
(*                                                                         *)
(* A decision (ProcessedEntry) is [hasId, id, kind, s, chunks]: hasId is   *)
(* FALSE for an element that is null or whose id is null or undefined;     *)
(* kind is "string" (text s), "array" (text chunks) or "other" (a text     *)
(* that is neither). A chunk is [isString, s].                             *)
(*                                                                         *)
(* The model's answer is [kind, category, data]: kind "error" (the request *)
(* or JSON.parse throws, category says why), "empty" (an empty text),      *)
(* "null" (the JSON value null), "nonarray" (another JSON value that is no *)
(* array) or "array" (data holds the decisions).                           *)
(***************************************************************************)
Decision(hasId, id, kind, str, chunks) ==
    [hasId |-> hasId, id |-> id, kind |-> kind, s |-> str, chunks |-> chunks]

\* entries.map(e => ({id: e.id, text: e.text}))
OriginalsAsDecisions(es) ==
    [i \in 1..Len(es) |-> Decision(TRUE, es[i].id, "string", es[i].text, <<>>)]

\* the message of the Error the catch block throws
OracleErrorMessage(category) ==
    CASE category = "quota" -> "Gemini API quota exceeded (429)"
      [] category = "credential" -> "API key not valid or permission denied"
      [] category = "json" -> "Gemini API returned no valid JSON"
      [] category = "api" -> "Gemini API error"
      [] OTHER -> "Could not reach the Gemini API"

\* [threw, message, value]: the promise rejects with message or resolves with value
processSubtitlesBatch(es, response) ==
    CASE response.kind = "error" ->
            [threw |-> TRUE, message |-> OracleErrorMessage(response.category), value |-> <<>>]
      [] response.kind = "empty" ->
            [threw |-> FALSE, message |-> "", value |-> OriginalsAsDecisions(es)]
      [] response.kind = "null" ->
            \* processedData.length of null throws a TypeError inside the try block
            [threw |-> TRUE, message |-> OracleErrorMessage("api"), value |-> <<>>]
      [] response.kind = "nonarray" ->
            [threw |-> FALSE, message |-> "", value |-> OriginalsAsDecisions(es)]
      [] OTHER ->
            IF Len(response.data) # Len(es)
            THEN [threw |-> FALSE, message |-> "", value |-> OriginalsAsDecisions(es)]
            ELSE [threw |-> FALSE, message |-> "", value |-> response.data]

(***************************************************************************)
(* App.tsx: the reallocation loop of handleTransform.                      *)
(***************************************************************************)
Entry(id, startTime, endTime, text) ==
    [id |-> id, startTime |-> startTime, endTime |-> endTime, text |-> text]

\* new Map(originalEntries.map(e => [e.id, e])).get(id): the last entry with that id
MapGet(es, id) ==
    LET at == {i \in 1..Len(es) : es[i].id = id}
    IN  IF at = {} THEN [found |-> FALSE, entry |-> Entry(0, 0, 0, <<>>)]
        ELSE [found |-> TRUE, entry |-> es[CHOOSE i \in at : \A j \in at : j <= i]]

KeepsChunk(c) == c.isString /\ Len(Trim(c.s)) > 0

\* FilterChunks with the trim forgotten: white-space chunks survive
FilterChunksNoTrim(chunks) ==
    LET keeps(c) == c.isString /\ Len(c.s) > 0
        kept == SelectSeq(chunks, keeps)
    IN  [i \in 1..Len(kept) |-> kept[i].s]

\* processedEntry.text.filter(c => typeof c === 'string' && c.trim().length > 0)
FilterChunks(chunks) ==
    LET kept == SelectSeq(chunks, KeepsChunk)
    IN  [i \in 1..Len(kept) |-> kept[i].s]

\* chunk.replace(/\n/g, '').length
ChunkLength(chunk) == Len(RemoveNL(chunk))

RECURSIVE TotalLength(_)
\* textChunks.reduce((acc, chunk) => acc + chunk.replace(/\n/g, '').length, 0)
TotalLength(textChunks) ==
    IF textChunks = <<>> THEN 0
    ELSE ChunkLength(Head(textChunks)) + TotalLength(Tail(textChunks))

RECURSIVE Pow2(_)
Pow2(n) == IF n <= 0 THEN 1 ELSE 2 * Pow2(n - 1)

RECURSIVE Pow2Mod(_, _)
\* 2^n modulo m
Pow2Mod(n, m) == IF n <= 0 THEN 1 % m ELSE (2 * Pow2Mod(n - 1, m)) % m

RECURSIVE FloorLog2(_)
\* the exponent of the binade of n >= 1: the largest j with 2^j <= n
FloorLog2(n) == IF n < 2 THEN 0 ELSE 1 + FloorLog2(n \div 2)

RECURSIVE QuotientExponent(_, _)
\* chunkLength / totalLength lies in [2^-a, 2^(1-a)): the a of that binade
QuotientExponent(chunkLength, totalLength) ==
    IF chunkLength >= totalLength THEN 0
    ELSE 1 + QuotientExponent(2 * chunkLength, totalLength)

\* chunkLength / totalLength is a double: the quotient rounded to 53 significant
\* bits, m / 2^(52+a). The error of that rounding, fl(w/W) - w/W, in units of
\* 1 / (totalLength * 2^(52+a)): minus the remainder of w * 2^(52+a) by W when m is
\* rounded down, W minus the remainder when it is rounded up
QuotientError(chunkLength, totalLength) ==
    LET a == QuotientExponent(chunkLength, totalLength)
        r == (chunkLength * Pow2Mod(52 + a, totalLength)) % totalLength
    IN  IF 2 * r > totalLength THEN totalLength - r ELSE 0 - r

\* totalDuration * (chunkLength / totalLength) is a double too. When the exact
\* product D * w / W is k - 1/2, the product of D and the rounded quotient is
\* k - 1/2 + D * QuotientError / (W * 2^(52+a)), and it is rounded to the nearest
\* double: to k - 1/2 itself unless it lies more than half a unit in the last place
\* below it. The doubles just below k - 1/2 are 2^(j-52) apart, j the exponent of
\* their binade.
ProductFallsShort(totalDuration, chunkLength, totalLength, k) ==
    LET a == QuotientExponent(chunkLength, totalLength)
        err == QuotientError(chunkLength, totalLength)
        j == IF k = 1 THEN 0 - 2 ELSE FloorLog2(k - 1)
        x == j + a - 1
    IN  /\ err < 0
        /\ totalDuration * (0 - err) * Pow2(0 - x) > totalLength * Pow2(x)

\* Math.round(totalDuration * (chunkLength / totalLength)) for totalDuration > 0 and
\* totalLength > 0, in the code's double arithmetic: the nearest integer of the
\* product, a half rounded up. The two roundings of the double arithmetic move the
\* product by less than 2^-39, which changes the result only when D * w / W is
\* exactly k - 1/2 and the double product falls below it: then the result is k - 1.
ChunkDuration(totalDuration, chunkLength, totalLength) ==
    LET k == (2 * totalDuration * chunkLength + totalLength) \div (2 * totalLength)
        half == (2 * totalDuration * chunkLength) % (2 * totalLength) = totalLength
    IN  IF half /\ ProductFallsShort(totalDuration, chunkLength, totalLength, k)
        THEN k - 1
        ELSE k

RECURSIVE ProportionalSplitLastShare(_, _, _, _, _)
\* ProportionalSplit with the last chunk given its rounded share like the others
ProportionalSplitLastShare(textChunks, i, currentStartTime, newId, originalEntry) ==
    IF i > Len(textChunks) THEN <<>>
    ELSE LET totalDuration == originalEntry.endTime - originalEntry.startTime
             chunkDuration == ChunkDuration(totalDuration, ChunkLength(textChunks[i]),
                                            TotalLength(textChunks))
             newEndTime == currentStartTime + chunkDuration
         IN  <<Entry(newId, currentStartTime, newEndTime, textChunks[i])>>
                 \o ProportionalSplitLastShare(textChunks, i + 1, newEndTime, newId + 1,
                                               originalEntry)

RECURSIVE ProportionalSplit(_, _, _, _, _)
\* the for loop of the branch totalLength > 0 && totalDuration > 0, from index i on
ProportionalSplit(textChunks, i, currentStartTime, newId, originalEntry) ==
    IF i > Len(textChunks) THEN <<>>
    ELSE IF i = Len(textChunks)
    THEN <<Entry(newId, currentStartTime, originalEntry.endTime, textChunks[i])>>
    ELSE LET totalDuration == originalEntry.endTime - originalEntry.startTime
             chunkDuration == ChunkDuration(totalDuration, ChunkLength(textChunks[i]),
                                            TotalLength(textChunks))
             newEndTime == currentStartTime + chunkDuration
         IN  <<Entry(newId, currentStartTime, newEndTime, textChunks[i])>>
                 \o ProportionalSplit(textChunks, i + 1, newEndTime, newId + 1, originalEntry)

RECURSIVE EqualSplit(_, _, _, _, _)
\* the for loop of the else branch, from index i on
EqualSplit(textChunks, i, startTime, newId, originalEntry) ==
    IF i > Len(textChunks) THEN <<>>
    ELSE LET totalDuration == originalEntry.endTime - originalEntry.startTime
             chunkDuration == totalDuration \div Len(textChunks)
             endTime == IF i = Len(textChunks) THEN originalEntry.endTime
                        ELSE startTime + chunkDuration
         IN  <<Entry(newId, startTime, endTime, textChunks[i])>>
                 \o EqualSplit(textChunks, i + 1, endTime, newId + 1, originalEntry)

\* SplitEntry with an entry of no duration never split: one entry with the joined text
SplitEntryZeroDurationJoined(chunks, originalEntry, newId) ==
    LET textChunks == FilterChunks(chunks)
        combinedText == IF Join(textChunks, <<" ">>) # <<>> THEN Join(textChunks, <<" ">>)
                        ELSE originalEntry.text
        totalDuration == originalEntry.endTime - originalEntry.startTime
        totalLength == TotalLength(textChunks)
    IN  IF Len(textChunks) < 2 \/ totalDuration = 0
        THEN <<Entry(newId, originalEntry.startTime, originalEntry.endTime, combinedText)>>
        ELSE IF totalLength > 0 /\ totalDuration > 0
        THEN ProportionalSplit(textChunks, 1, originalEntry.startTime, newId, originalEntry)
        ELSE EqualSplit(textChunks, 1, originalEntry.startTime, newId, originalEntry)

\* the branch Array.isArray(processedEntry.text)
SplitEntry(chunks, originalEntry, newId) ==
    LET textChunks == FilterChunks(chunks)
        combinedText == IF Join(textChunks, <<" ">>) # <<>> THEN Join(textChunks, <<" ">>)
                        ELSE originalEntry.text
        totalDuration == originalEntry.endTime - originalEntry.startTime
        totalLength == TotalLength(textChunks)
    IN  IF Len(textChunks) < 2
        THEN <<Entry(newId, originalEntry.startTime, originalEntry.endTime, combinedText)>>
        ELSE IF totalLength > 0 /\ totalDuration > 0
        THEN ProportionalSplit(textChunks, 1, originalEntry.startTime, newId, originalEntry)
        ELSE EqualSplit(textChunks, 1, originalEntry.startTime, newId, originalEntry)

\* whether the loop body reaches `continue` before it emits anything
SkipsDecision(processedEntry, es) ==
    \/ ~processedEntry.hasId
    \/ ~MapGet(es, processedEntry.id).found

\* ProcessEntry with `processedEntry.text || originalEntry.text` for a string: an
\* empty string falls back to the original text
ProcessEntryFalsyText(processedEntry, es, newId) ==
    IF SkipsDecision(processedEntry, es) THEN <<>>
    ELSE LET originalEntry == MapGet(es, processedEntry.id).entry
         IN  CASE processedEntry.kind = "array" ->
                    SplitEntry(processedEntry.chunks, originalEntry, newId)
               [] processedEntry.kind = "string" /\ processedEntry.s # <<>> ->
                    <<Entry(newId, originalEntry.startTime, originalEntry.endTime,
                            processedEntry.s)>>
               [] OTHER ->
                    <<Entry(newId, originalEntry.startTime, originalEntry.endTime,
                            originalEntry.text)>>

\* ProcessEntry with a text that is neither a string nor an array skipped like a
\* decision without id
ProcessEntrySkipsInvalidText(processedEntry, es, newId) ==
    IF SkipsDecision(processedEntry, es) THEN <<>>
    ELSE LET originalEntry == MapGet(es, processedEntry.id).entry
         IN  CASE processedEntry.kind = "array" ->
                    SplitEntry(processedEntry.chunks, originalEntry, newId)
               [] processedEntry.kind = "string" ->
                    <<Entry(newId, originalEntry.startTime, originalEntry.endTime,
                            processedEntry.s)>>
               [] OTHER -> <<>>

\* one iteration of the loop: the entries it pushes, the first with id newId
ProcessEntry(processedEntry, es, newId) ==
    IF SkipsDecision(processedEntry, es) THEN <<>>
    ELSE LET originalEntry == MapGet(es, processedEntry.id).entry
         IN  CASE processedEntry.kind = "array" ->
                    SplitEntry(processedEntry.chunks, originalEntry, newId)
               [] processedEntry.kind = "string" ->
                    <<Entry(newId, originalEntry.startTime, originalEntry.endTime,
                            processedEntry.s)>>
               [] OTHER ->
                    <<Entry(newId, originalEntry.startTime, originalEntry.endTime,
                            originalEntry.text)>>

RECURSIVE ReallocateFromIdPerDecision(_, _, _, _)
\* ReallocateFrom with newId advanced once per decision instead of once per entry
ReallocateFromIdPerDecision(decisions, es, i, newId) ==
    IF i > Len(decisions) THEN <<>>
    ELSE ProcessEntry(decisions[i], es, newId)
             \o ReallocateFromIdPerDecision(decisions, es, i + 1, newId + 1)

RECURSIVE ReallocateFromBreak(_, _, _, _)
\* ReallocateFrom with `break` in place of `continue`: a skipped decision ends the loop
ReallocateFromBreak(decisions, es, i, newId) ==
    IF i > Len(decisions) \/ SkipsDecision(decisions[i], es) THEN <<>>
    ELSE LET pushed == ProcessEntry(decisions[i], es, newId)
         IN  pushed \o ReallocateFromBreak(decisions, es, i + 1, newId + Len(pushed))

RECURSIVE ReallocateFrom(_, _, _, _)
\* the loop over processedEntriesFromAI from index i on, newId being the next id
ReallocateFrom(decisions, es, i, newId) ==
    IF i > Len(decisions) THEN <<>>
    ELSE LET pushed == ProcessEntry(decisions[i], es, newId)
         IN  pushed \o ReallocateFrom(decisions, es, i + 1, newId + Len(pushed))

\* let newId = 1; for (const processedEntry of processedEntriesFromAI) ...
Reallocate(decisions, es) == ReallocateFrom(decisions, es, 1, 1)

(***************************************************************************)
(* Inputs of the App: the files a user uploads and the answers of the      *)
(* model.                                                                  *)
(***************************************************************************)
BlockOfId(idLine) == CHOOSE b \in Blocks : b.idLine = idLine

\* the caption files uploaded: an empty file, a file of one entry, a file of two
\* entries (durations 4000 and 2 ms), a file whose only block lacks the arrow
AppSources ==
    { [blocks |-> <<>>, eol |-> <<NL>>],
      [blocks |-> <<BlockOfId(<<"1">>)>>, eol |-> <<NL>>],
      [blocks |-> <<BlockOfId(<<"1">>), BlockOfId(<<"2">>)>>, eol |-> <<CR, NL>>],
      [blocks |-> <<BlockOfId(<<"5">>)>>, eol |-> <<NL>>] }

AppFiles ==
    {[name |-> "captions.srt", content |-> RenderSource(src)] : src \in AppSources}
        \cup {[name |-> "notes.txt", content |-> <<"h", "i">>]}

\* what a user types into the result text area
EditedTexts == {<<"e", "d", "i", "t">>}

\* the sequences of exactly n elements of S
SeqsOfLen(S, n) == {q \in SeqsUpTo(S, n) : Len(q) = n}

StringChunk(str) == [isString |-> TRUE, s |-> str]
NonStringChunk == [isString |-> FALSE, s |-> <<>>]

\* chunks of weight 1 and 2 (a line break does not count), a blank chunk, a chunk
\* that is no string
ChunkChoices ==
    {StringChunk(<<"a">>), StringChunk(<<"b", NL, "c">>), StringChunk(<<" ">>), NonStringChunk}
BatchChunkChoices == {StringChunk(<<"a">>), StringChunk(<<" ">>)}
StringChoices == {<<>>, <<"x", NL, "y">>}

MaxChunks == 4
MaxBatchChunks == 2

\* the decisions about the entries with the given ids, an unknown id or no id, with
\* chunk lists of at most maxChunks chunks
Decisions(ids, chunkChoices, maxChunks) ==
    {Decision(TRUE, id, "string", str, <<>>) : id \in ids, str \in StringChoices}
        \cup {Decision(TRUE, id, "other", <<>>, <<>>) : id \in ids}
        \cup {Decision(TRUE, id, "array", <<>>, cs) :
                 id \in ids, cs \in SeqsUpTo(chunkChoices, maxChunks)}
        \cup {Decision(FALSE, 0, "string", <<"x", NL, "y">>, <<>>)}

\* an id no uploaded file uses
UnknownIds == {9}
IdsOf(es) == {es[i].id : i \in 1..Len(es)}

\* arrays of another length than the batch: a decision missing, a decision too many
MismatchedArrays(es) ==
    LET ds == {Decision(TRUE, id, "string", <<"x", NL, "y">>, <<>>) :
                  id \in IdsOf(es) \cup UnknownIds}
    IN  {q \in SeqsUpTo(ds, Len(es) + 1) : Len(q) \in {Len(es) - 1, Len(es) + 1}}

ResponseArrays(es) ==
    LET ids == IdsOf(es) \cup UnknownIds
    IN  SeqsOfLen(Decisions(ids, BatchChunkChoices, MaxBatchChunks), Len(es))
            \cup MismatchedArrays(es)

ErrorCategories == {"network", "quota", "credential", "json", "api"}

Responses(es) ==
    {[kind |-> "error", category |-> c, data |-> <<>>] : c \in ErrorCategories}
        \cup {[kind |-> k, category |-> "none", data |-> <<>>] : k \in {"empty", "null", "nonarray"}}
        \cup {[kind |-> "array", category |-> "none", data |-> d] : d \in ResponseArrays(es)}

(***************************************************************************)
(* App.tsx: the handlers.                                                  *)
(***************************************************************************)
Init == AppIdle /\ HarnessIdle

\* handleTransform's locals are dead once it has returned: the next handler that
\* runs finds none of them
LeaveFrame ==
    IF pc = "await"
    THEN UNCHANGED <<pc, oracleResponse, originalEntries, processedEntriesFromAI, newSrtEntries>>
    ELSE /\ pc' = "idle"
         /\ oracleResponse' = NoResponse
         /\ originalEntries' = <<>>
         /\ processedEntriesFromAI' = <<>>
         /\ newSrtEntries' = <<>>

\* handleFileChange with a file that is no .srt file; the file input and the drop
\* zone are rendered only while originalSrt is empty
handleFileChangeRejected ==
    /\ originalSrt = <<>>
    /\ \E file \in AppFiles :
          /\ file.name # "captions.srt"
          /\ error' = "Only .srt files can be uploaded"
    /\ LeaveFrame
    /\ UNCHANGED <<originalSrt, processedSrt, isLoading, reader>>
    /\ UNCHANGED harnessVars

\* handleFileChange with an .srt file: reader.readAsText(file); one read in flight
handleFileChange ==
    /\ originalSrt = <<>>
    /\ reader = NoFile
    /\ \E file \in AppFiles :
          /\ file.name = "captions.srt"
          /\ reader' = file
    /\ LeaveFrame
    /\ UNCHANGED <<originalSrt, processedSrt, error, isLoading>>
    /\ UNCHANGED harnessVars

\* reader.onload
readerOnload ==
    /\ reader # NoFile
    /\ originalSrt' = reader.content
    /\ processedSrt' = <<>>
    /\ error' = NoError
    /\ reader' = NoFile
    /\ LeaveFrame
    /\ UNCHANGED isLoading
    /\ UNCHANGED harnessVars

\* the button is rendered only while originalSrt is not empty, and is not disabled
\* while isLoading
handleNewUpload ==
    /\ originalSrt # <<>>
    /\ originalSrt' = <<>>
    /\ processedSrt' = <<>>
    /\ error' = NoError
    /\ LeaveFrame
    /\ UNCHANGED <<isLoading, reader>>
    /\ UNCHANGED harnessVars

\* the result text area's onChange; the text area is disabled while isLoading
processedSrtEdited ==
    /\ ~isLoading
    /\ \E text \in EditedTexts : processedSrt' = text
    /\ LeaveFrame
    /\ UNCHANGED <<originalSrt, error, isLoading, reader>>
    /\ UNCHANGED harnessVars

\* handleTransform without a file: the early return
handleTransformNoFile ==
    /\ ~isLoading
    /\ originalSrt = <<>>
    /\ error' = "Upload an SRT file first"
    /\ LeaveFrame
    /\ UNCHANGED <<originalSrt, processedSrt, isLoading, reader>>
    /\ UNCHANGED harnessVars

\* handleTransformStart with setProcessedSrt('') forgotten
handleTransformStartKeepsResult ==
    /\ ~isLoading
    /\ originalSrt # <<>>
    /\ isLoading' = TRUE
    /\ error' = NoError
    /\ originalEntries' = parseSrt(originalSrt)
    /\ pc' = "await"
    /\ oracleResponse' = NoResponse
    /\ processedEntriesFromAI' = <<>>
    /\ newSrtEntries' = <<>>
    /\ UNCHANGED <<originalSrt, processedSrt, reader>>
    /\ UNCHANGED harnessVars

\* handleTransform up to its await; the button is disabled while isLoading
handleTransformStart ==
    /\ ~isLoading
    /\ originalSrt # <<>>
    /\ isLoading' = TRUE
    /\ error' = NoError
    /\ processedSrt' = <<>>
    /\ originalEntries' = parseSrt(originalSrt)
    /\ pc' = "await"
    /\ oracleResponse' = NoResponse
    /\ processedEntriesFromAI' = <<>>
    /\ newSrtEntries' = <<>>
    /\ UNCHANGED <<originalSrt, reader>>
    /\ UNCHANGED harnessVars

\* the await resolves: the loop, setProcessedSrt(stringifySrt(...)), the finally block
handleTransformResolved ==
    /\ pc = "await"
    /\ \E response \in Responses(originalEntries) :
          LET result == processSubtitlesBatch(originalEntries, response)
              emitted == Reallocate(result.value, originalEntries)
          IN  /\ ~result.threw
              /\ oracleResponse' = response
              /\ processedEntriesFromAI' = result.value
              /\ newSrtEntries' = emitted
              /\ processedSrt' = stringifySrt(emitted)
    /\ isLoading' = FALSE
    /\ pc' = "done"
    /\ UNCHANGED <<originalSrt, error, reader, originalEntries>>
    /\ UNCHANGED harnessVars

\* the await rejects: the catch block, the finally block
handleTransformRejected ==
    /\ pc = "await"
    /\ \E response \in Responses(originalEntries) :
          LET result == processSubtitlesBatch(originalEntries, response)
          IN  /\ result.threw
              /\ oracleResponse' = response
              /\ error' = result.message
    /\ isLoading' = FALSE
    /\ pc' = "failed"
    /\ UNCHANGED <<originalSrt, processedSrt, reader, originalEntries,
                   processedEntriesFromAI, newSrtEntries>>
    /\ UNCHANGED harnessVars

Next ==
    \/ handleFileChangeRejected
    \/ handleFileChange
    \/ readerOnload
    \/ handleNewUpload
    \/ processedSrtEdited
    \/ handleTransformNoFile
    \/ handleTransformStart
    \/ handleTransformResolved
    \/ handleTransformRejected

Spec == Init /\ [][Next]_vars

(***************************************************************************)
(* The reallocation loop as a function of the parsed entries and the       *)
(* decisions: batches of one entry with every chunk list of at most        *)
(* MaxChunks chunks, and a batch of two entries.                           *)
(***************************************************************************)
\* single entries of duration 4000, 2, 0 and -1000 ms
ReallocSources ==
    {[blocks |-> <<BlockOfId(id)>>, eol |-> <<NL>>] :
        id \in {<<"1">>, <<"2">>, <<"0", "7">>, <<"4">>}}
BatchSources == {src \in AppSources : Len(src.blocks) > 1}

\* an entry of 1285 ms and chunks of weight 7 and 3: 1285 * 7 / 10 is 899.5
HalfwaySources ==
    {[blocks |-> <<Block(<<"1", "1">>, <<>>, Stamp(0, 0, 1, 0), Arrow, Stamp(0, 0, 2, 285),
                         <<>>, <<<<"a">>>>)>>,
      eol |-> <<NL>>]}
HalfwayChunkChoices ==
    {StringChunk(<<"a", "b", "c", "d", "e", "f", "g">>), StringChunk(<<"h", NL, "i", "j">>)}

\* the pairs <<entries, decisions>> the loop is run on
InputsOf(src, chunkChoices, maxChunks) ==
    LET es == parseSrt(RenderSource(src))
        ds == Decisions(IdsOf(es) \cup UnknownIds, chunkChoices, maxChunks)
    IN  {<<es, q>> : q \in SeqsOfLen(ds, Len(es))}

ReallocInputs ==
    UNION ({InputsOf(src, ChunkChoices, MaxChunks) : src \in ReallocSources}
           \cup {InputsOf(src, BatchChunkChoices, MaxBatchChunks) : src \in BatchSources}
           \cup {InputsOf(src, HalfwayChunkChoices, MaxChunks) : src \in HalfwaySources})

InitRealloc ==
    /\ HarnessIdle
    /\ originalSrt = <<>>
    /\ processedSrt = <<>>
    /\ error = NoError
    /\ isLoading = FALSE
    /\ reader = NoFile
    /\ pc = "loop"
    /\ oracleResponse = NoResponse
    /\ \E inp \in ReallocInputs :
          /\ originalEntries = inp[1]
          /\ processedEntriesFromAI = inp[2]
    /\ newSrtEntries = <<>>

\* the loop of handleTransform
ApplyReallocate ==
    /\ pc = "loop"
    /\ newSrtEntries' = Reallocate(processedEntriesFromAI, originalEntries)
    /\ pc' = "emitted"
    /\ UNCHANGED <<originalSrt, processedSrt, error, isLoading, reader, oracleResponse,
                   originalEntries, processedEntriesFromAI>>
    /\ UNCHANGED harnessVars

\* setProcessedSrt(stringifySrt(newSrtEntries))
ApplySetProcessedSrt ==
    /\ pc = "emitted"
    /\ processedSrt' = stringifySrt(newSrtEntries)
    /\ pc' = "done"
    /\ UNCHANGED <<originalSrt, error, isLoading, reader, oracleResponse,
                   originalEntries, processedEntriesFromAI, newSrtEntries>>
    /\ UNCHANGED harnessVars

NextRealloc == ApplyReallocate \/ ApplySetProcessedSrt

SpecRealloc == InitRealloc /\ [][NextRealloc]_vars

(***************************************************************************)
(* What the properties of the reallocation loop speak of: which decisions  *)
(* match an original entry, which chunks survive, and which of the emitted *)
(* entries belong to which decision.                                       *)
(***************************************************************************)
LoopDone == pc \in {"emitted", "done"}

NonBlankChunk(c) == c.isString /\ \E k \in 1..Len(c.s) : c.s[k] \notin WhiteSpace
SurvivingChunks(d) == SelectSeq(d.chunks, NonBlankChunk)

Matched(d) == d.hasId /\ d.id \in IdsOf(originalEntries)
OriginalOf(d) == CHOOSE e \in {originalEntries[i] : i \in 1..Len(originalEntries)} : e.id = d.id
IsSplit(d) == Matched(d) /\ d.kind = "array" /\ Len(SurvivingChunks(d)) >= 2
IsDegenerate(d) == Matched(d) /\ d.kind = "array" /\ Len(SurvivingChunks(d)) < 2

\* how many entries a decision is to contribute
ExpectedCount(d) ==
    IF ~Matched(d) THEN 0 ELSE IF IsSplit(d) THEN Len(SurvivingChunks(d)) ELSE 1

RECURSIVE CountBefore(_, _)
CountBefore(ds, i) == IF i <= 1 THEN 0 ELSE CountBefore(ds, i - 1) + ExpectedCount(ds[i - 1])

CountsAgree ==
    Len(newSrtEntries) = CountBefore(processedEntriesFromAI, Len(processedEntriesFromAI) + 1)

\* the entries emitted for the i-th decision
EmittedFor(i) ==
    LET from == CountBefore(processedEntriesFromAI, i)
    IN  SubSeq(newSrtEntries, from + 1, from + ExpectedCount(processedEntriesFromAI[i]))

Timing(e) == <<e.startTime, e.endTime>>

\* C1: the entries emitted for a split into N >= 2 chunks form a chain over the
\* original span: the first starts at original.startTime, each later one starts
\* where the one before it ends, the last ends at original.endTime.
C1_ContiguousChain ==
    LoopDone =>
        /\ CountsAgree
        /\ \A i \in 1..Len(processedEntriesFromAI) :
              IsSplit(processedEntriesFromAI[i]) =>
                  LET es == EmittedFor(i)
                      o == OriginalOf(processedEntriesFromAI[i])
                  IN  /\ es[1].startTime = o.startTime
                      /\ \A k \in 2..Len(es) : es[k].startTime = es[k - 1].endTime
                      /\ es[Len(es)].endTime = o.endTime

\* C1 witness: an entry of 4000 ms split into three chunks of different weights, the
\* inner boundaries strictly inside the span
C1_Witness ==
    /\ LoopDone
    /\ Len(processedEntriesFromAI) = 1
    /\ IsSplit(processedEntriesFromAI[1])
    /\ Len(newSrtEntries) = 3
    /\ newSrtEntries[1].startTime = 1000
    /\ newSrtEntries[1].endTime > 1000
    /\ newSrtEntries[2].startTime = newSrtEntries[1].endTime
    /\ newSrtEntries[2].endTime > newSrtEntries[2].startTime
    /\ newSrtEntries[3].startTime = newSrtEntries[2].endTime
    /\ newSrtEntries[3].endTime = 5000
    /\ newSrtEntries[2].endTime - newSrtEntries[2].startTime
           # newSrtEntries[1].endTime - newSrtEntries[1].startTime

\* C2 (as claimed): for an original with startTime <= endTime split into N >= 2
\* chunks, every emitted entry has startTime <= endTime <= original.endTime and the
\* start times do not decrease.
C2_OrderedWithinSpan ==
    LoopDone /\ CountsAgree =>
        \A i \in 1..Len(processedEntriesFromAI) :
            LET d == processedEntriesFromAI[i]
            IN  IsSplit(d) /\ OriginalOf(d).startTime <= OriginalOf(d).endTime =>
                    LET es == EmittedFor(i)
                    IN  \A k \in 1..Len(es) :
                            /\ es[k].startTime <= es[k].endTime
                            /\ es[k].endTime <= OriginalOf(d).endTime
                            /\ k > 1 => es[k - 1].startTime <= es[k].startTime

\* C3: the emitted entries carry the ids 1, 2, ..., n in emission order, whatever the
\* decisions and the original ids, and however many decisions were skipped.
C3_SequentialIds ==
    LoopDone => \A k \in 1..Len(newSrtEntries) : newSrtEntries[k].id = k

\* C3 witness: a batch whose first decision is skipped and whose second decision
\* splits the entry with id 2 in two: the emitted ids are 1 and 2
C3_Witness ==
    /\ LoopDone
    /\ Len(processedEntriesFromAI) = 2
    /\ ~Matched(processedEntriesFromAI[1])
    /\ IsSplit(processedEntriesFromAI[2])
    /\ processedEntriesFromAI[2].id = 2
    /\ Len(newSrtEntries) = 2
    /\ newSrtEntries[1].id = 1
    /\ newSrtEntries[2].id = 2

TimingAndText(es) == [k \in 1..Len(es) |-> <<es[k].startTime, es[k].endTime, es[k].text>>]

\* C6: a decision without an id or with an id of no original entry emits nothing and
\* does not end the batch: the entries emitted have the timing and the text they
\* have when the loop runs on the list without those decisions.
C6_BadDecisionsDropped ==
    LoopDone =>
        /\ CountsAgree
        /\ TimingAndText(newSrtEntries)
               = TimingAndText(Reallocate(SelectSeq(processedEntriesFromAI, Matched),
                                          originalEntries))

\* C6 witness: a batch whose first decision has no id and whose second decision
\* splits its entry in two
C6_Witness ==
    /\ LoopDone
    /\ Len(processedEntriesFromAI) = 2
    /\ ~processedEntriesFromAI[1].hasId
    /\ IsSplit(processedEntriesFromAI[2])
    /\ Len(newSrtEntries) = 2
    /\ newSrtEntries[1].startTime = OriginalOf(processedEntriesFromAI[2]).startTime
    /\ newSrtEntries[2].endTime = OriginalOf(processedEntriesFromAI[2]).endTime

\* C7: a chunk list of which fewer than 2 chunks are non-blank emits exactly one
\* entry, with the original timing and with the surviving chunk as text, or the
\* original text when no chunk survives.
C7_DegenerateSplit ==
    LoopDone =>
        /\ CountsAgree
        /\ \A i \in 1..Len(processedEntriesFromAI) :
              IsDegenerate(processedEntriesFromAI[i]) =>
                  LET es == EmittedFor(i)
                      o == OriginalOf(processedEntriesFromAI[i])
                      sv == SurvivingChunks(processedEntriesFromAI[i])
                  IN  /\ Len(es) = 1
                      /\ Timing(es[1]) = Timing(o)
                      /\ es[1].text = IF Len(sv) = 1 THEN sv[1].s ELSE o.text

\* C7 witness: three chunks, one of them blank and one no string, the third
\* survives and becomes the text of the single entry
C7_Witness ==
    /\ LoopDone
    /\ Len(processedEntriesFromAI) = 1
    /\ IsDegenerate(processedEntriesFromAI[1])
    /\ Len(processedEntriesFromAI[1].chunks) = 3
    /\ StringChunk(<<" ">>) \in {processedEntriesFromAI[1].chunks[k] : k \in 1..3}
    /\ NonStringChunk \in {processedEntriesFromAI[1].chunks[k] : k \in 1..3}
    /\ newSrtEntries = <<Entry(1, 1000, 5000, <<"b", NL, "c">>)>>

\* C8: a decision that is a single string, the empty string included, emits exactly
\* one entry: the next id, the original timing, the string unchanged as text.
C8_SingleString ==
    LoopDone =>
        /\ CountsAgree
        /\ \A i \in 1..Len(processedEntriesFromAI) :
              LET d == processedEntriesFromAI[i]
              IN  Matched(d) /\ d.kind = "string" =>
                      EmittedFor(i) = <<Entry(CountBefore(processedEntriesFromAI, i) + 1,
                                              OriginalOf(d).startTime,
                                              OriginalOf(d).endTime, d.s)>>

\* C8 witness: the empty string as decision for an entry whose text is not empty
C8_Witness ==
    /\ LoopDone
    /\ Len(processedEntriesFromAI) = 1
    /\ processedEntriesFromAI[1].kind = "string"
    /\ processedEntriesFromAI[1].s = <<>>
    /\ originalEntries[1].text # <<>>
    /\ newSrtEntries = <<Entry(1, originalEntries[1].startTime, originalEntries[1].endTime, <<>>)>>

(***************************************************************************)
(* Properties of the codec, the parser and the serializer.                 *)
(***************************************************************************)
\* the value of the two digits of s at i and i + 1
FieldAt(s, i) == DigitVal(s[i]) * 10 + DigitVal(s[i + 1])
\* minutes and seconds below 60
CanonicalStamp(s) == FieldAt(s, 4) <= 59 /\ FieldAt(s, 7) <= 59

\* C4 (as claimed): for a well-formed caption text x, parseSrt(stringifySrt(parseSrt(x)))
\* equals parseSrt(x) entry for entry, large field values and minutes or seconds
\* above 59 included.
C4_ParseStringifyParse ==
    stage = "reparsed" /\ WellFormedSource(source) => reparsed = entries

\* C5 (as claimed): msToTime(timeToMs(s)) = s for every s of the shape HH:MM:SS,mmm.
C5_RoundTripAnyFields ==
    stage = "formatted" => timeOut = input

\* C5 (amended): msToTime(timeToMs(s)) = s for every s of the shape HH:MM:SS,mmm
\* whose minutes and seconds are at most 59.
C5_RoundTripCanonical ==
    stage = "formatted" /\ CanonicalStamp(input) => timeOut = input

\* C5 witness: 99:59:59,999 has gone through timeToMs and msToTime and come back
C5_Witness ==
    /\ stage = "formatted"
    /\ input = Stamp(99, 59, 59, 999)
    /\ ms = 359999999
    /\ timeOut = input

\* C9 (as claimed): a parse of a text that is not empty after trimming and yields no
\* entry throws; a parse of an empty text returns no entry and does not throw.
C9_NoEntriesParsed ==
    stage \in {"parsed", "parsedLines"} =>
        LET found == IF stage = "parsed" THEN entries ELSE lineEntries
        IN  /\ Trim(input) # <<>> /\ found = <<>> => thrown
            /\ Trim(input) = <<>> => ~thrown /\ found = <<>>

(***************************************************************************)
(* Properties of handleTransform.                                          *)
(***************************************************************************)
\* C10: when handleTransform finishes after processSubtitlesBatch threw, processedSrt
\* is the empty string, nothing was reallocated and an error is reported.
C10_FailureLeavesNoOutput ==
    pc = "failed" => processedSrt = <<>> /\ newSrtEntries = <<>> /\ error # NoError

\* C10 witness: the model's answer was no valid JSON, handleTransform has finished
C10_Witness ==
    /\ pc = "failed"
    /\ oracleResponse.kind = "error"
    /\ oracleResponse.category = "json"
    /\ error = OracleErrorMessage("json")
    /\ processedSrt = <<>>
    /\ ~isLoading

\* a decision with an id whose text is a string or a list of chunks
WellFormedDecision(d) == d.hasId /\ d.kind \in {"string", "array"}

\* whether what the loop emits for d alone (timing and text) is found, in one piece,
\* in the emitted entries
AppliedIn(d, es, emitted) ==
    LET own == TimingAndText(ProcessEntry(d, es, 1))
        all == TimingAndText(emitted)
    IN  \E k \in 0..(Len(all) - Len(own)) : SubSeq(all, k + 1, k + Len(own)) = own

\* C11 (as claimed): when the model's answer is an array, every well-formed decision
\* in it for an original entry is applied to that entry in the output, also when the
\* array has a decision too few or too many or holds a decision with an unknown id.
C11_GoodDecisionsApplied ==
    pc = "done" /\ oracleResponse.kind = "array" =>
        \A i \in 1..Len(oracleResponse.data) :
            LET d == oracleResponse.data[i]
            IN  WellFormedDecision(d) /\ Matched(d) =>
                    AppliedIn(d, originalEntries, newSrtEntries)

\* C11, the part that holds: the same, for an array as long as the batch
C11_SameLengthApplied ==
    pc = "done" /\ oracleResponse.kind = "array"
        /\ Len(oracleResponse.data) = Len(originalEntries) =>
        \A i \in 1..Len(oracleResponse.data) :
            LET d == oracleResponse.data[i]
            IN  WellFormedDecision(d) /\ Matched(d) =>
                    AppliedIn(d, originalEntries, newSrtEntries)

(***************************************************************************)
(* Properties of parseSrt and stringifySrt, block by block.                *)
(***************************************************************************)
\* C12 (as claimed): no entry parseSrt returns has an endTime below its startTime; a
\* block whose timing line ends before it starts contributes no entry.
C12_NoNegativeSpan ==
    stage = "parsed" =>
        \A k \in 1..Len(entries) : entries[k].startTime <= entries[k].endTime

\* the first line is a decimal integer: digits and nothing else
IdIsDecimal(b) == AllDigits(b.idLine)

\* the second line is a timestamp, the arrow and a timestamp, and nothing else
TimingHasForm(b) ==
    LET line == TimingLine(b)
    IN  /\ b.start # <<>>
        /\ TimeMatchAt(line, 1) # 0
        /\ TimeMatchAt(line, 1) + 11 = Len(line)

\* the entries of the blocks that pass both checks, in source order
RECURSIVE EntriesOfBlocks(_)
EntriesOfBlocks(bs) ==
    IF bs = <<>> THEN <<>>
    ELSE LET b == Head(bs)
         IN  (IF IdIsDecimal(b) /\ TimingHasForm(b)
              THEN <<Entry(ParseInt(b.idLine).val, timeToMs(b.start), timeToMs(b.fin),
                           Join(b.textLines, <<NL>>))>>
              ELSE <<>>) \o EntriesOfBlocks(Tail(bs))

\* C13 (as claimed): parseSrt returns an entry for exactly the blocks whose first
\* line is a decimal integer and whose second line is '<timestamp> --> <timestamp>',
\* in source order; a block with the first line '12abc' or '-3', or with other
\* characters around the timestamps, is skipped.
C13_EntryIffBothChecks ==
    stage = "parsed" => entries = EntriesOfBlocks(source.blocks)

\* the block of an entry: the id line, the '<start> --> <end>' line, the text
RenderedBlock(e) ==
    ToStr(e.id) \o <<NL>> \o msToTime(e.startTime) \o Arrow \o msToTime(e.endTime)
        \o <<NL>> \o e.text

\* where the block of the k-th entry starts in the text when consecutive blocks are
\* two line breaks apart
RECURSIVE BlockStart(_, _)
BlockStart(es, k) ==
    IF k <= 1 THEN 1 ELSE BlockStart(es, k - 1) + Len(RenderedBlock(es[k - 1])) + 2

\* C14: stringifySrt renders the entries in their order, each as its id line, its
\* timing line and its text, consecutive blocks separated by exactly one blank line,
\* nothing after the text of the last block; no entries give the empty string.
C14_BlocksInOrder ==
    stage = "rendered" =>
        LET n == Len(entries)
        IN  /\ n = 0 => rendered = <<>>
            /\ n > 0 => Len(rendered) = BlockStart(entries, n) + Len(RenderedBlock(entries[n])) - 1
            /\ \A k \in 1..n :
                  LET from == BlockStart(entries, k)
                      upto == from + Len(RenderedBlock(entries[k])) - 1
                  IN  /\ upto <= Len(rendered)
                      /\ SubSeq(rendered, from, upto) = RenderedBlock(entries[k])
                      /\ k < n => /\ upto + 2 <= Len(rendered)
                                  /\ SubSeq(rendered, upto + 1, upto + 2) = <<NL, NL>>

\* C14 witness: two entries rendered, a text of two lines in the first block, one
\* blank line between the blocks, the text ends with the text of the second entry
C14_Witness ==
    /\ stage = "rendered"
    /\ rendered = <<"1", NL>> \o Stamp(0, 0, 1, 0) \o Arrow \o Stamp(0, 0, 5, 0)
                      \o <<NL, "a", "b", NL, "c", NL, NL, "2", NL>>
                      \o Stamp(0, 0, 0, 0) \o Arrow \o Stamp(0, 0, 0, 2) \o <<NL, "a">>

(***************************************************************************)
(* Properties of the shares of a split.                                    *)
(***************************************************************************)
\* the characters of a chunk that are no line breaks
Weight(c) == Cardinality({k \in 1..Len(c) : c[k] # NL})

RECURSIVE SumOfWeights(_)
SumOfWeights(cs) == IF cs = <<>> THEN 0 ELSE Weight(Head(cs).s) + SumOfWeights(Tail(cs))

\* D * w / W rounded to the nearest integer, a half rounded up
RoundedShare(D, w, W) == (2 * D * w + W) \div (2 * W)

\* C15 (as claimed): in a split into N >= 2 chunks of an entry of positive duration
\* D, every entry but the last spans exactly round(D * w / W) ms, w the number of
\* characters of its chunk that are no line breaks and W the sum of these numbers
\* over the surviving chunks.
C15_ProportionalShare ==
    LoopDone /\ CountsAgree =>
        \A i \in 1..Len(processedEntriesFromAI) :
            LET d == processedEntriesFromAI[i]
            IN  IsSplit(d) /\ OriginalOf(d).endTime > OriginalOf(d).startTime =>
                    LET es == EmittedFor(i)
                        cs == SurvivingChunks(d)
                        D == OriginalOf(d).endTime - OriginalOf(d).startTime
                    IN  \A k \in 1..(Len(es) - 1) :
                            es[k].endTime - es[k].startTime
                                = RoundedShare(D, Weight(cs[k].s), SumOfWeights(cs))

\* C16: a split into N >= 2 chunks of an entry with startTime = endTime emits exactly
\* N entries, one per surviving chunk, each starting and ending at the original
\* startTime.
C16_ZeroDurationSplit ==
    LoopDone =>
        /\ CountsAgree
        /\ \A i \in 1..Len(processedEntriesFromAI) :
              LET d == processedEntriesFromAI[i]
              IN  IsSplit(d) /\ OriginalOf(d).startTime = OriginalOf(d).endTime =>
                      LET es == EmittedFor(i)
                          cs == SurvivingChunks(d)
                      IN  /\ Len(es) = Len(cs)
                          /\ \A k \in 1..Len(es) :
                                /\ es[k].startTime = OriginalOf(d).startTime
                                /\ es[k].endTime = OriginalOf(d).startTime
                                /\ es[k].text = cs[k].s

\* C16 witness: the entry 99:59:59,999 --> 99:59:59,999 split into three chunks
C16_Witness ==
    /\ LoopDone
    /\ originalEntries = <<Entry(7, 359999999, 359999999, <<>>)>>
    /\ Len(processedEntriesFromAI) = 1
    /\ IsSplit(processedEntriesFromAI[1])
    /\ Len(newSrtEntries) = 3
    /\ \A k \in 1..3 : Timing(newSrtEntries[k]) = <<359999999, 359999999>>

(***************************************************************************)
(* Properties of a decision whose text is neither a string nor a list.     *)
(***************************************************************************)
\* the decisions with every such text replaced by the text of the original entry
WithOriginalText(ds) ==
    [i \in 1..Len(ds) |->
        IF Matched(ds[i]) /\ ds[i].kind = "other"
        THEN Decision(TRUE, ds[i].id, "string", OriginalOf(ds[i]).text, <<>>)
        ELSE ds[i]]

\* C17: a decision with a matching id whose text is neither a string nor a list
\* emits exactly one entry: the next id, the original timing, the original text; the
\* other decisions of the batch emit what they emit when that decision returns the
\* original text.
C17_InvalidTextFallsBack ==
    LoopDone =>
        /\ CountsAgree
        /\ \A i \in 1..Len(processedEntriesFromAI) :
              LET d == processedEntriesFromAI[i]
              IN  Matched(d) /\ d.kind = "other" =>
                      EmittedFor(i) = <<Entry(CountBefore(processedEntriesFromAI, i) + 1,
                                              OriginalOf(d).startTime,
                                              OriginalOf(d).endTime,
                                              OriginalOf(d).text)>>
        /\ newSrtEntries = Reallocate(WithOriginalText(processedEntriesFromAI), originalEntries)

\* C17 witness: a batch of two entries, an invalid text for the first and a split in
\* two for the second: three entries with the ids 1, 2, 3, the first the original
C17_Witness ==
    /\ LoopDone
    /\ Len(processedEntriesFromAI) = 2
    /\ processedEntriesFromAI[1].kind = "other"
    /\ processedEntriesFromAI[1].id = 1
    /\ IsSplit(processedEntriesFromAI[2])
    /\ Len(newSrtEntries) = 3
    /\ newSrtEntries[1] = Entry(1, 1000, 5000, <<"a", "b", NL, "c">>)
    /\ newSrtEntries[3].id = 3

====
